---- MODULE Spec2Model ----
(***************************************************************************)
(* StoreFront: the relational store (users, customers, catalog, carts,     *)
(* orders) and the REST handlers of store/views.py that change it.  A      *)
(* handler is an operator from the request and the tables to the response  *)
(* and the tables it leaves; an action is one request, named by its route, *)
(* handled from permission check to response.  The variable response holds *)
(* the last HTTP response sent.                                            *)
(***************************************************************************)
EXTENDS Integers, FiniteSets, Sequences, TLC

\* ---------------------------------------------------------------- bounds
MaxUsers == 2
MaxProducts == 2
MaxCollections == 3
\* carts and orders in the store together: an order takes the place of its cart
MaxBaskets == 1
\* cart items and order items in the store together
MaxItems == 2
MaxQuantity == 2

UserIds == 1..MaxUsers
\* one customer per user, and one spare key
CustomerIds == 1..(MaxUsers + 1)
ProductIds == 1..MaxProducts
CollectionIds == 1..MaxCollections
CartIds == 1..MaxBaskets
CartItemIds == 1..MaxItems
OrderIds == 1..MaxBaskets
OrderItemIds == 1..MaxItems

\* a NULL foreign key, and the id of a user or row that is not there
None == 0
\* request.user.id of a request that carries no credentials
Anonymous == None
\* the pk field of a response that names no row
NoPk == None

\* ------------------------------------------------------- program constants
BRONZE == "B"
SILVER == "S"
GOLD == "G"
MEMBERSHIP_CHOICES == {BRONZE, SILVER, GOLD}

PENDING == "P"
COMPLETE == "C"
FAILED == "F"
PAYMENT_STATUS == {PENDING, COMPLETE, FAILED}

\* ------------------------------------------------------------------ state
VARIABLES
    users,       \* auth user rows        [id, is_staff]
    customers,   \* store_customer rows   [id, user, membership]
    products,    \* store_product rows    [id, collection]
    collections, \* store_collection rows [id, featured_product]
    carts,       \* store_cart primary keys
    cartItems,   \* store_cartitem rows   [id, cart, product, quantity]
    orders,      \* store_order rows      [id, customer, payment_status]
    orderItems,  \* store_orderitem rows  [id, order, product, quantity]
    order_created, \* what the last order_created.send_robust met
    response     \* the last response     [status, detail, pk]; pk is the
                 \* order a successful POST /orders/ returns

vars == <<users, customers, products, collections, carts, cartItems,
          orders, orderItems, order_created, response>>

identity == <<users, customers>>
catalog == <<products, collections>>
cartState == <<carts, cartItems>>
orderState == <<orders, orderItems, order_created>>

\* ---------------------------------------------------------------- helpers
Pks(rows) == {r.id : r \in rows}

\* the primary key the database gives a new row: one no existing row has
NextPk(rows, Ids) ==
    CHOOSE i \in Ids \ Pks(rows) : \A j \in Ids \ Pks(rows) : i <= j

HasFreePk(rows, Ids) == Ids \ Pks(rows) # {}

\* the bounds of the model: room for one more cart, for one more cart item
RoomForBasket == Cardinality(carts) + Cardinality(orders) < MaxBaskets
RoomForItem == Cardinality(cartItems) + Cardinality(orderItems) < MaxItems

Response(status, detail, pk) ==
    [status |-> status, detail |-> detail, pk |-> pk]

\* ------------------------------------------------------------ permissions
IsAuthenticated(user) == \E u \in users : u.id = user

IsAdminUser(user) == \E u \in users : u.id = user /\ u.is_staff

\* store/permissions.py: writes for staff only, reads for everyone
IsAdminOrReadOnly(user, method) ==
    method \in {"GET", "HEAD", "OPTIONS"} \/ IsAdminUser(user)

\* a viewset that declares no permission_classes: the framework's AllowAny
AllowAny(user) == TRUE

\* the response of a request whose permission check fails
PermissionDenied(user) ==
    IF IsAuthenticated(user)
    THEN Response(403, "You do not have permission to perform this action.", NoPk)
    ELSE Response(401, "Authentication credentials were not provided.", NoPk)

\* request.user.id: a user of the users table, or nobody
Callers == Pks(users) \cup {Anonymous}

\* ------------------------------------------------------------------- Init
Init ==
    /\ users = {[id |-> 1, is_staff |-> TRUE]}
    /\ customers = {[id |-> 1, user |-> 1, membership |-> BRONZE]}
    /\ products = {[id |-> p, collection |-> 1] : p \in ProductIds}
    /\ collections =
         {[id |-> c,
           featured_product |->
               IF c < MaxCollections /\ c \in ProductIds THEN c ELSE None]
            : c \in CollectionIds}
    /\ carts = {}
    /\ cartItems = {}
    /\ orders = {}
    /\ orderItems = {}
    /\ order_created = "not sent"
    /\ response = Response(200, "", NoPk)

\* ------------------------------------------------- identity (users, customers)
\* a receiver that does not look at created
create_customer_for_new_user_EverySave(instance, created) ==
    customers \cup
        {[id |-> NextPk(customers, CustomerIds), user |-> instance,
          membership |-> BRONZE]}

\* signals/handlers.py: the post_save receiver of the user model
create_customer_for_new_user(instance, created) ==
    IF created
    THEN customers \cup
           {[id |-> NextPk(customers, CustomerIds), user |-> instance,
             membership |-> BRONZE]}
    ELSE customers

\* a new user row is saved: post_save is sent with created=True
User_create(is_staff) ==
    LET id == NextPk(users, UserIds) IN
    [id |-> id,
     users |-> users \cup {[id |-> id, is_staff |-> is_staff]},
     customers |-> create_customer_for_new_user(id, TRUE)]

\* the row of an existing user is saved: post_save is sent with created=False
User_save(user) ==
    [users |-> users,
     customers |-> create_customer_for_new_user(user, FALSE)]

\* registration, createsuperuser
CreateUser(is_staff) ==
    /\ HasFreePk(users, UserIds)
    /\ HasFreePk(customers, CustomerIds)
    /\ users' = User_create(is_staff).users
    /\ customers' = User_create(is_staff).customers
    /\ UNCHANGED <<catalog, cartState, orderState, response>>

\* a user's row is updated
SaveUser(user) ==
    /\ IsAuthenticated(user)
    /\ HasFreePk(customers, CustomerIds)
    /\ users' = User_save(user).users
    /\ customers' = User_save(user).customers
    /\ UNCHANGED <<catalog, cartState, orderState, response>>

\* serializers.py CustomerSerializer.validate_user_id
validate_user_id(value) == \E u \in users : u.id = value

\* serializers.py CustomerSerializer.save: the customer of user_id, saved as
\* it is when there is one, created from the validated data when there is none
CustomerSerializer_save(user_id, membership) ==
    LET found == {c \in customers : c.user = user_id} IN
    IF Cardinality(found) = 1
    THEN [raised |-> "", customers |-> customers]
    ELSE IF found = {}
    THEN [raised |-> "",
          customers |-> customers \cup
              {[id |-> NextPk(customers, CustomerIds), user |-> user_id,
                membership |-> membership]}]
    ELSE [raised |-> "MultipleObjectsReturned", customers |-> customers]

\* views.py CustomerViewSet, create: permission, validation, save
CustomerViewSet_create(user, user_id, membership) ==
    IF ~IsAdminUser(user)
    THEN [response |-> PermissionDenied(user), customers |-> customers]
    ELSE IF ~validate_user_id(user_id)
    THEN [response |-> Response(400,
              "No registration found for the user with this user id.", NoPk),
          customers |-> customers]
    ELSE LET r == CustomerSerializer_save(user_id, membership) IN
         [response |-> IF r.raised # "" THEN Response(500, r.raised, NoPk)
                       ELSE Response(201, "", NoPk),
          customers |-> r.customers]

POST_customers(user, user_id, membership) ==
    /\ HasFreePk(customers, CustomerIds)
    /\ LET r == CustomerViewSet_create(user, user_id, membership) IN
        /\ customers' = r.customers
        /\ response' = r.response
    /\ UNCHANGED <<users, catalog, cartState, orderState>>

\* views.py CustomerViewSet, update: the serializer's save is the same
\* get-or-create and leaves the row of pk alone
CustomerViewSet_update(user, pk, user_id, membership) ==
    IF ~IsAdminUser(user)
    THEN [response |-> PermissionDenied(user), customers |-> customers]
    ELSE IF pk \notin Pks(customers)
    THEN [response |-> Response(404, "Not found.", NoPk),
          customers |-> customers]
    ELSE IF ~validate_user_id(user_id)
    THEN [response |-> Response(400,
              "No registration found for the user with this user id.", NoPk),
          customers |-> customers]
    ELSE LET r == CustomerSerializer_save(user_id, membership) IN
         [response |-> IF r.raised # "" THEN Response(500, r.raised, NoPk)
                       ELSE Response(200, "", NoPk),
          customers |-> r.customers]

PUT_customer(user, pk, user_id, membership) ==
    /\ HasFreePk(customers, CustomerIds)
    /\ LET r == CustomerViewSet_update(user, pk, user_id, membership) IN
        /\ customers' = r.customers
        /\ response' = r.response
    /\ UNCHANGED <<users, catalog, cartState, orderState>>

\* models.py Order.customer: on_delete=PROTECT
Customer_protected(pk) == \E o \in orders : o.customer = pk

\* views.py CustomerViewSet, destroy
CustomerViewSet_destroy(user, pk) ==
    IF ~IsAdminUser(user)
    THEN [response |-> PermissionDenied(user), customers |-> customers]
    ELSE IF pk \notin Pks(customers)
    THEN [response |-> Response(404, "Not found.", NoPk),
          customers |-> customers]
    ELSE IF Customer_protected(pk)
    THEN [response |-> Response(500, "ProtectedError", NoPk),
          customers |-> customers]
    ELSE [response |-> Response(204, "", NoPk),
          customers |-> {c \in customers : c.id # pk}]

DELETE_customer(user, pk) ==
    /\ LET r == CustomerViewSet_destroy(user, pk) IN
        /\ customers' = r.customers
        /\ response' = r.response
    /\ UNCHANGED <<users, catalog, cartState, orderState>>

\* views.py CustomerViewSet.me, PUT
CustomerViewSet_me(user, membership) ==
    IF ~IsAuthenticated(user)
    THEN [response |-> PermissionDenied(user), customers |-> customers]
    ELSE LET found == {c \in customers : c.user = user} IN
         IF Cardinality(found) # 1
         THEN [response |-> Response(500,
                   IF found = {} THEN "DoesNotExist"
                   ELSE "MultipleObjectsReturned", NoPk),
               customers |-> customers]
         ELSE LET customer == CHOOSE c \in found : TRUE IN
              [response |-> Response(200, "", NoPk),
               customers |-> (customers \ {customer}) \cup
                   {[customer EXCEPT !.membership = membership]}]

PUT_customers_me(user, membership) ==
    /\ LET r == CustomerViewSet_me(user, membership) IN
        /\ customers' = r.customers
        /\ response' = r.response
    /\ UNCHANGED <<users, catalog, cartState, orderState>>

\* ---------------------------------------------------------------- catalog
\* models.py OrderItem.product: on_delete=PROTECT
Product_protected(pk) == \E i \in orderItems : i.product = pk

\* product.orderitem_set.count()
orderitem_set_count(pk) == Cardinality({i \in orderItems : i.product = pk})

\* product.delete(): CartItem.product cascades, Collection.featured_product
\* is set NULL, an OrderItem protects the product
Product_delete(pk) ==
    IF Product_protected(pk)
    THEN [raised |-> "ProtectedError", products |-> products,
          collections |-> collections, cartItems |-> cartItems]
    ELSE [raised |-> "",
          products |-> {p \in products : p.id # pk},
          collections |->
              {IF c.featured_product = pk
               THEN [c EXCEPT !.featured_product = None] ELSE c
                 : c \in collections},
          cartItems |-> {i \in cartItems : i.product # pk}]

\* a destroy that does not count the order items of the product
ProductViewSet_destroy_NoCheck(user, pk) ==
    LET unchanged(response_) ==
            [response |-> response_, products |-> products,
             collections |-> collections, cartItems |-> cartItems] IN
    IF ~IsAdminOrReadOnly(user, "DELETE")
    THEN unchanged(PermissionDenied(user))
    ELSE IF pk \notin Pks(products)
    THEN unchanged(Response(404, "Not found.", NoPk))
    ELSE LET r == Product_delete(pk) IN
         [response |-> IF r.raised # "" THEN Response(500, r.raised, NoPk)
                       ELSE Response(204, "", NoPk),
          products |-> r.products, collections |-> r.collections,
          cartItems |-> r.cartItems]

\* views.py ProductViewSet.destroy
ProductViewSet_destroy(user, pk) ==
    LET unchanged(response_) ==
            [response |-> response_, products |-> products,
             collections |-> collections, cartItems |-> cartItems] IN
    IF ~IsAdminOrReadOnly(user, "DELETE")
    THEN unchanged(PermissionDenied(user))
    ELSE IF pk \notin Pks(products)
    THEN unchanged(Response(404, "Not found.", NoPk))
    ELSE IF orderitem_set_count(pk) > 0
    THEN unchanged(Response(405,
             "product cannot be deleted, associated with orderitem", NoPk))
    ELSE LET r == Product_delete(pk) IN
         [response |-> IF r.raised # "" THEN Response(500, r.raised, NoPk)
                       ELSE Response(204, "", NoPk),
          products |-> r.products, collections |-> r.collections,
          cartItems |-> r.cartItems]

DELETE_product(user, pk) ==
    /\ LET r == ProductViewSet_destroy(user, pk) IN
        /\ products' = r.products
        /\ collections' = r.collections
        /\ cartItems' = r.cartItems
        /\ response' = r.response
    /\ UNCHANGED <<identity, carts, orderState>>

\* models.py Product.collection: on_delete=PROTECT
Collection_protected(pk) == \E p \in products : p.collection = pk

\* a destroy that does not look at the featured product
CollectionViewset_destroy_NoCheck(user, pk) ==
    IF ~IsAdminOrReadOnly(user, "DELETE")
    THEN [response |-> PermissionDenied(user), collections |-> collections]
    ELSE IF pk \notin Pks(collections)
    THEN [response |-> Response(404, "Not found.", NoPk),
          collections |-> collections]
    ELSE LET collection == CHOOSE c \in collections : c.id = pk IN
         IF Collection_protected(pk)
         THEN [response |-> Response(500, "ProtectedError", NoPk),
               collections |-> collections]
         ELSE [response |-> Response(204, "", NoPk),
               collections |-> collections \ {collection}]

\* views.py CollectionViewset.destroy
CollectionViewset_destroy(user, pk) ==
    IF ~IsAdminOrReadOnly(user, "DELETE")
    THEN [response |-> PermissionDenied(user), collections |-> collections]
    ELSE IF pk \notin Pks(collections)
    THEN [response |-> Response(404, "Not found.", NoPk),
          collections |-> collections]
    ELSE LET collection == CHOOSE c \in collections : c.id = pk IN
         IF collection.featured_product # None
         THEN [response |-> Response(405,
                   "collection could not be deleted, featuring a product", NoPk),
               collections |-> collections]
         ELSE IF Collection_protected(pk)
         THEN [response |-> Response(500, "ProtectedError", NoPk),
               collections |-> collections]
         ELSE [response |-> Response(204, "", NoPk),
               collections |-> collections \ {collection}]

DELETE_collection(user, pk) ==
    /\ LET r == CollectionViewset_destroy(user, pk) IN
        /\ collections' = r.collections
        /\ response' = r.response
    /\ UNCHANGED <<identity, products, cartState, orderState>>

\* ------------------------------------------------------------------ carts
\* views.py CartViewSet, create: a cart with a new uuid4 key
CartViewSet_create(user) ==
    IF ~AllowAny(user)
    THEN [response |-> PermissionDenied(user), carts |-> carts]
    ELSE [response |-> Response(201, "", NoPk),
          carts |-> carts \cup
              {CHOOSE i \in CartIds \ carts : \A j \in CartIds \ carts : i <= j}]

POST_carts(user) ==
    /\ RoomForBasket
    /\ LET r == CartViewSet_create(user) IN
        /\ carts' = r.carts
        /\ response' = r.response
    /\ UNCHANGED <<identity, catalog, cartItems, orderState>>

\* cart.delete(): CartItem.cart cascades
Cart_delete(pk) ==
    [carts |-> carts \ {pk}, cartItems |-> {i \in cartItems : i.cart # pk}]

\* views.py CartViewSet, destroy
CartViewSet_destroy(user, pk) ==
    IF ~AllowAny(user)
    THEN [response |-> PermissionDenied(user), carts |-> carts,
          cartItems |-> cartItems]
    ELSE IF pk \notin carts
    THEN [response |-> Response(404, "Not found.", NoPk), carts |-> carts,
          cartItems |-> cartItems]
    ELSE [response |-> Response(204, "", NoPk),
          carts |-> Cart_delete(pk).carts,
          cartItems |-> Cart_delete(pk).cartItems]

DELETE_cart(user, pk) ==
    /\ LET r == CartViewSet_destroy(user, pk) IN
        /\ carts' = r.carts
        /\ cartItems' = r.cartItems
        /\ response' = r.response
    /\ UNCHANGED <<identity, catalog, orderState>>

\* models.py CartItem.quantity: MinValueValidator(1)
quantity_is_valid(quantity) == quantity >= 1

\* AddCartItemSerializer.save that always creates a row
AddCartItemSerializer_save_AlwaysCreates(cart_id, product_id, quantity) ==
    IF cart_id \notin carts \/ product_id \notin Pks(products)
    THEN [raised |-> "IntegrityError", cartItems |-> cartItems]
    ELSE [raised |-> "",
          cartItems |-> cartItems \cup
              {[id |-> NextPk(cartItems, CartItemIds), cart |-> cart_id,
                product |-> product_id, quantity |-> quantity]}]

\* serializers.py AddCartItemSerializer.save: add to the row of this cart and
\* product when there is one, create the row when there is none.  The foreign
\* keys of a created row must name existing rows (IntegrityError otherwise).
AddCartItemSerializer_save(cart_id, product_id, quantity) ==
    LET found == {i \in cartItems : i.cart = cart_id /\ i.product = product_id} IN
    IF Cardinality(found) = 1
    THEN LET cart_item == CHOOSE i \in found : TRUE IN
         [raised |-> "",
          cartItems |-> (cartItems \ {cart_item}) \cup
              {[cart_item EXCEPT !.quantity = cart_item.quantity + quantity]}]
    ELSE IF found # {}
    THEN [raised |-> "MultipleObjectsReturned", cartItems |-> cartItems]
    ELSE IF cart_id \notin carts \/ product_id \notin Pks(products)
    THEN [raised |-> "IntegrityError", cartItems |-> cartItems]
    ELSE [raised |-> "",
          cartItems |-> cartItems \cup
              {[id |-> NextPk(cartItems, CartItemIds), cart |-> cart_id,
                product |-> product_id, quantity |-> quantity]}]

\* serializers.py AddCartItemSerializer.validated_product_id: "" when the
\* product exists.  The framework calls validate_<field>; under this name the
\* method is never called.
validated_product_id(value) ==
    IF value \notin Pks(products)
    THEN "No product with that product ID exists" ELSE ""

\* views.py CartItemViewSet, create: AddCartItemSerializer.  No validator
\* runs on product_id: the serializer's validated_product_id is not a name
\* the framework calls.
CartItemViewSet_create(user, cart_pk, product_id, quantity) ==
    IF ~AllowAny(user)
    THEN [response |-> PermissionDenied(user), cartItems |-> cartItems]
    ELSE IF ~quantity_is_valid(quantity)
    THEN [response |-> Response(400,
              "Ensure this value is greater than or equal to 1.", NoPk),
          cartItems |-> cartItems]
    ELSE LET r == AddCartItemSerializer_save(cart_pk, product_id, quantity) IN
         [response |-> IF r.raised # "" THEN Response(500, r.raised, NoPk)
                       ELSE Response(201, "", NoPk),
          cartItems |-> r.cartItems]

\* the bounds leave room for this request
POST_cart_items_bounded(cart_pk, product_id, quantity) ==
    /\ RoomForItem \/ \E i \in cartItems :
                          i.cart = cart_pk /\ i.product = product_id
    /\ \A i \in cartItems :
          i.cart = cart_pk /\ i.product = product_id
              => i.quantity + quantity <= MaxQuantity

POST_cart_items(user, cart_pk, product_id, quantity) ==
    /\ POST_cart_items_bounded(cart_pk, product_id, quantity)
    /\ LET r == CartItemViewSet_create(user, cart_pk, product_id, quantity) IN
        /\ cartItems' = r.cartItems
        /\ response' = r.response
    /\ UNCHANGED <<identity, catalog, carts, orderState>>

\* views.py CartItemViewSet.get_queryset: the items of the cart in the URL
CartItemViewSet_get_queryset(cart_pk) == {i \in cartItems : i.cart = cart_pk}

\* views.py CartItemViewSet, update: UpdateCartItemSerializer, quantity only
CartItemViewSet_update(user, cart_pk, pk, quantity) ==
    IF ~AllowAny(user)
    THEN [response |-> PermissionDenied(user), cartItems |-> cartItems]
    ELSE IF pk \notin Pks(CartItemViewSet_get_queryset(cart_pk))
    THEN [response |-> Response(404, "Not found.", NoPk),
          cartItems |-> cartItems]
    ELSE IF ~quantity_is_valid(quantity)
    THEN [response |-> Response(400,
              "Ensure this value is greater than or equal to 1.", NoPk),
          cartItems |-> cartItems]
    ELSE [response |-> Response(200, "", NoPk),
          cartItems |->
              {IF i.id = pk THEN [i EXCEPT !.quantity = quantity] ELSE i
                 : i \in cartItems}]

PUT_cart_item(user, cart_pk, pk, quantity) ==
    /\ LET r == CartItemViewSet_update(user, cart_pk, pk, quantity) IN
        /\ cartItems' = r.cartItems
        /\ response' = r.response
    /\ UNCHANGED <<identity, catalog, carts, orderState>>

\* views.py CartItemViewSet, destroy
CartItemViewSet_destroy(user, cart_pk, pk) ==
    IF ~AllowAny(user)
    THEN [response |-> PermissionDenied(user), cartItems |-> cartItems]
    ELSE IF pk \notin Pks(CartItemViewSet_get_queryset(cart_pk))
    THEN [response |-> Response(404, "Not found.", NoPk),
          cartItems |-> cartItems]
    ELSE [response |-> Response(204, "", NoPk),
          cartItems |-> {i \in cartItems : i.id # pk}]

DELETE_cart_item(user, cart_pk, pk) ==
    /\ LET r == CartItemViewSet_destroy(user, cart_pk, pk) IN
        /\ cartItems' = r.cartItems
        /\ response' = r.response
    /\ UNCHANGED <<identity, catalog, carts, orderState>>

\* ----------------------------------------------------------------- orders
\* get_permissions that asks every method for an authenticated user only
OrderViewSet_get_permissions_AuthenticatedOnly(user, method) ==
    IsAuthenticated(user)

\* views.py OrderViewSet.get_permissions
OrderViewSet_get_permissions(user, method) ==
    IF method \in {"PATCH", "DELETE"}
    THEN IsAdminUser(user)
    ELSE IsAuthenticated(user)

\* validate_cart_id without the test for an empty cart
validate_cart_id_EmptyAccepted(cart_id) ==
    IF cart_id \notin carts THEN "No cart with that ID exists" ELSE ""

\* serializers.py CreateOrderSerializer.validate_cart_id: "" when valid
validate_cart_id(cart_id) ==
    IF cart_id \notin carts
    THEN "No cart with that ID exists"
    ELSE IF Cardinality({i \in cartItems : i.cart = cart_id}) = 0
    THEN "Cart is empty"
    ELSE ""

\* bulk_create that leaves every quantity at 1 instead of copying it
RECURSIVE bulk_create_QuantityNotCopied(_, _, _)
bulk_create_QuantityNotCopied(cart_items, order, rows) ==
    IF cart_items = {}
    THEN rows
    ELSE LET item == CHOOSE i \in cart_items :
                         \A j \in cart_items : i.id <= j.id IN
         bulk_create_QuantityNotCopied(cart_items \ {item}, order,
             rows \cup {[id |-> NextPk(rows, OrderItemIds), order |-> order,
                         product |-> item.product, quantity |-> 1]})

\* OrderItem.objects.bulk_create of one OrderItem per cart item
RECURSIVE bulk_create(_, _, _)
bulk_create(cart_items, order, rows) ==
    IF cart_items = {}
    THEN rows
    ELSE LET item == CHOOSE i \in cart_items :
                         \A j \in cart_items : i.id <= j.id IN
         bulk_create(cart_items \ {item}, order,
             rows \cup {[id |-> NextPk(rows, OrderItemIds), order |-> order,
                         product |-> item.product,
                         quantity |-> item.quantity]})

\* order_created.send: a receiver's exception is raised to the sender
send(listener_fails) ==
    [raised |-> IF listener_fails THEN "ReceiverError" ELSE "",
     result |-> IF listener_fails THEN "receiver raised" ELSE "received"]

\* order_created.send_robust: a receiver's exception is caught and returned,
\* never raised
send_robust(listener_fails) ==
    [raised |-> "",
     result |-> IF listener_fails THEN "receiver raised" ELSE "received"]

\* with transaction.atomic(): an exception leaves the tables as they were
transaction_atomic(r) ==
    IF r.raised # ""
    THEN [raised |-> r.raised, order |-> NoPk, orders |-> orders,
          orderItems |-> orderItems, carts |-> carts, cartItems |-> cartItems,
          signal |-> r.signal]
    ELSE r

\* save that deletes the cart first, outside the transaction, and looks the
\* customer up afterwards
CreateOrderSerializer_save_CartDeletedFirst(cart_id, user_id, listener_fails) ==
    LET found == {c \in customers : c.user = user_id}
        deleted == Cart_delete(cart_id) IN
    IF Cardinality(found) # 1
    THEN [raised |-> "DoesNotExist", order |-> NoPk, orders |-> orders,
          orderItems |-> orderItems, carts |-> deleted.carts,
          cartItems |-> deleted.cartItems, signal |-> order_created]
    ELSE LET order == [id |-> NextPk(orders, OrderIds),
                       customer |-> (CHOOSE c \in found : TRUE).id,
                       payment_status |-> PENDING]
         IN [raised |-> "", order |-> order.id,
             orders |-> orders \cup {order},
             orderItems |-> bulk_create({i \in cartItems : i.cart = cart_id},
                                        order.id, orderItems),
             carts |-> deleted.carts, cartItems |-> deleted.cartItems,
             signal |-> send_robust(listener_fails).result]

\* serializers.py CreateOrderSerializer.save
CreateOrderSerializer_save(cart_id, user_id, listener_fails) ==
    LET found == {c \in customers : c.user = user_id} IN
    IF Cardinality(found) # 1
    THEN transaction_atomic(
           [raised |-> IF found = {} THEN "DoesNotExist"
                       ELSE "MultipleObjectsReturned",
            order |-> NoPk, orders |-> orders, orderItems |-> orderItems,
            carts |-> carts, cartItems |-> cartItems,
            signal |-> order_created])
    ELSE LET customer == CHOOSE c \in found : TRUE
             order == [id |-> NextPk(orders, OrderIds),
                       customer |-> customer.id, payment_status |-> PENDING]
             cart_items == {i \in cartItems : i.cart = cart_id}
             deleted == Cart_delete(cart_id)
             sent == send_robust(listener_fails)
         IN transaction_atomic(
              [raised |-> sent.raised,
               order |-> order.id,
               orders |-> orders \cup {order},
               orderItems |-> bulk_create(cart_items, order.id, orderItems),
               carts |-> deleted.carts,
               cartItems |-> deleted.cartItems,
               signal |-> sent.result])

\* views.py OrderViewSet.create
OrderViewSet_create(user, cart_id, listener_fails) ==
    LET unchanged(response_) ==
            [response |-> response_, orders |-> orders,
             orderItems |-> orderItems, carts |-> carts,
             cartItems |-> cartItems, signal |-> order_created] IN
    IF ~OrderViewSet_get_permissions(user, "POST")
    THEN unchanged(PermissionDenied(user))
    ELSE IF validate_cart_id(cart_id) # ""
    THEN unchanged(Response(400, validate_cart_id(cart_id), NoPk))
    ELSE LET r == CreateOrderSerializer_save(cart_id, user, listener_fails) IN
         [response |-> IF r.raised # "" THEN Response(500, r.raised, NoPk)
                       ELSE Response(200, "", r.order),
          orders |-> r.orders, orderItems |-> r.orderItems,
          carts |-> r.carts, cartItems |-> r.cartItems, signal |-> r.signal]

POST_orders(user, cart_id, listener_fails) ==
    /\ LET r == OrderViewSet_create(user, cart_id, listener_fails) IN
        /\ orders' = r.orders
        /\ orderItems' = r.orderItems
        /\ carts' = r.carts
        /\ cartItems' = r.cartItems
        /\ order_created' = r.signal
        /\ response' = r.response
    /\ UNCHANGED <<identity, catalog>>

\* views.py OrderViewSet.get_queryset: the orders the caller may see, or the
\* exception raised
OrderViewSet_get_queryset(user) ==
    IF IsAdminUser(user)
    THEN [raised |-> "", orders |-> orders]
    ELSE LET found == {c \in customers : c.user = user} IN
         IF Cardinality(found) # 1
         THEN [raised |-> IF found = {} THEN "DoesNotExist"
                          ELSE "MultipleObjectsReturned",
               orders |-> {}]
         ELSE [raised |-> "",
               orders |-> {o \in orders :
                             o.customer = (CHOOSE c \in found : TRUE).id}]

\* views.py OrderViewSet, list
OrderViewSet_list(user) ==
    IF ~OrderViewSet_get_permissions(user, "GET")
    THEN [response |-> PermissionDenied(user)]
    ELSE IF OrderViewSet_get_queryset(user).raised # ""
    THEN [response |-> Response(500, OrderViewSet_get_queryset(user).raised, NoPk)]
    ELSE [response |-> Response(200, "", NoPk)]

GET_orders(user) ==
    /\ response' = OrderViewSet_list(user).response
    /\ UNCHANGED <<identity, catalog, cartState, orderState>>

\* an update that lets a payment leave Pending and never come back
UpdateOrderSerializer_save_PendingOnly(order, payment_status) ==
    IF order.payment_status = PENDING
    THEN [order EXCEPT !.payment_status = payment_status]
    ELSE order

\* serializers.py UpdateOrderSerializer: payment_status is the one field
UpdateOrderSerializer_save(order, payment_status) ==
    [order EXCEPT !.payment_status = payment_status]

\* views.py OrderViewSet, partial_update
OrderViewSet_partial_update(user, pk, payment_status) ==
    IF ~OrderViewSet_get_permissions(user, "PATCH")
    THEN [response |-> PermissionDenied(user), orders |-> orders]
    ELSE IF OrderViewSet_get_queryset(user).raised # ""
    THEN [response |-> Response(500, OrderViewSet_get_queryset(user).raised, NoPk),
          orders |-> orders]
    ELSE IF pk \notin Pks(OrderViewSet_get_queryset(user).orders)
    THEN [response |-> Response(404, "Not found.", NoPk), orders |-> orders]
    ELSE IF payment_status \notin PAYMENT_STATUS
    THEN [response |-> Response(400, "not a valid choice.", NoPk),
          orders |-> orders]
    ELSE [response |-> Response(200, "", NoPk),
          orders |->
              {IF o.id = pk THEN UpdateOrderSerializer_save(o, payment_status)
               ELSE o : o \in orders}]

PATCH_order(user, pk, payment_status) ==
    /\ LET r == OrderViewSet_partial_update(user, pk, payment_status) IN
        /\ orders' = r.orders
        /\ response' = r.response
    /\ UNCHANGED <<identity, catalog, cartState, orderItems, order_created>>

\* models.py OrderItem.order: on_delete=PROTECT
Order_protected(pk) == \E i \in orderItems : i.order = pk

\* views.py OrderViewSet, destroy
OrderViewSet_destroy(user, pk) ==
    IF ~OrderViewSet_get_permissions(user, "DELETE")
    THEN [response |-> PermissionDenied(user), orders |-> orders]
    ELSE IF OrderViewSet_get_queryset(user).raised # ""
    THEN [response |-> Response(500, OrderViewSet_get_queryset(user).raised, NoPk),
          orders |-> orders]
    ELSE IF pk \notin Pks(OrderViewSet_get_queryset(user).orders)
    THEN [response |-> Response(404, "Not found.", NoPk), orders |-> orders]
    ELSE IF Order_protected(pk)
    THEN [response |-> Response(500, "ProtectedError", NoPk), orders |-> orders]
    ELSE [response |-> Response(204, "", NoPk),
          orders |-> {o \in orders : o.id # pk}]

DELETE_order(user, pk) ==
    /\ LET r == OrderViewSet_destroy(user, pk) IN
        /\ orders' = r.orders
        /\ response' = r.response
    /\ UNCHANGED <<identity, catalog, cartState, orderItems, order_created>>

\* ------------------------------------------------------- specifications
IdentityNext ==
    \/ \E s \in BOOLEAN : CreateUser(s)
    \/ \E u \in UserIds : SaveUser(u)
    \/ \E u \in Callers, x \in UserIds, m \in MEMBERSHIP_CHOICES :
          POST_customers(u, x, m)
    \/ \E u \in Callers, pk \in CustomerIds, x \in UserIds,
          m \in MEMBERSHIP_CHOICES : PUT_customer(u, pk, x, m)
    \/ \E u \in Callers, pk \in CustomerIds : DELETE_customer(u, pk)
    \/ \E u \in Callers, m \in MEMBERSHIP_CHOICES : PUT_customers_me(u, m)

CatalogNext ==
    \/ \E u \in Callers, pk \in ProductIds : DELETE_product(u, pk)
    \/ \E u \in Callers, pk \in CollectionIds : DELETE_collection(u, pk)

CartNext ==
    \/ \E u \in Callers : POST_carts(u)
    \/ \E u \in Callers, pk \in CartIds : DELETE_cart(u, pk)
    \/ \E u \in Callers, c \in CartIds, p \in ProductIds, q \in 0..MaxQuantity :
          POST_cart_items(u, c, p, q)
    \/ \E u \in Callers, c \in CartIds, pk \in CartItemIds, q \in 0..MaxQuantity :
          PUT_cart_item(u, c, pk, q)
    \/ \E u \in Callers, c \in CartIds, pk \in CartItemIds :
          DELETE_cart_item(u, c, pk)

OrderNext ==
    \/ \E u \in Callers, c \in CartIds, f \in BOOLEAN : POST_orders(u, c, f)
    \/ \E u \in Callers : GET_orders(u)
    \/ \E u \in Callers, pk \in OrderIds, s \in PAYMENT_STATUS \cup {"X"} :
          PATCH_order(u, pk, s)
    \/ \E u \in Callers, pk \in OrderIds : DELETE_order(u, pk)

Next == IdentityNext \/ CatalogNext \/ CartNext \/ OrderNext

\* every handler, on every table
Spec == Init /\ [][Next]_vars

\* users and customers alone: no other handler writes either table, and
\* these read no other table but orders, which only ever blocks a delete
SpecIdentity == Init /\ [][IdentityNext]_vars

\* the carts and their items; deleting a product deletes its cart items.
\* An order creation, left out, deletes a cart as DELETE_cart does.
CartShopNext ==
    \/ CartNext
    \/ \E u \in Callers, pk \in ProductIds : DELETE_product(u, pk)

SpecCart == Init /\ [][CartShopNext]_vars

\* the catalog, with sign-up for a caller who is not staff.  Order items,
\* left out, only ever block the delete of a product.
CatalogShopNext ==
    \/ CreateUser(FALSE)
    \/ CatalogNext

SpecCatalog == Init /\ [][CatalogShopNext]_vars

\* the checkout: carts are filled and ordered, by users with and without a
\* customer.  The handlers left out write carts and cart items only (every
\* set of cart items they leave is one POST_cart_items builds), or users, or
\* the payment status, or delete products no order item names.
CheckoutNext ==
    \/ \E u \in Callers, pk \in CustomerIds : DELETE_customer(u, pk)
    \/ \E u \in Callers : POST_carts(u)
    \/ \E u \in Callers, c \in CartIds, p \in ProductIds, q \in 0..MaxQuantity :
          POST_cart_items(u, c, p, q)
    \/ \E u \in Callers, c \in CartIds, f \in BOOLEAN : POST_orders(u, c, f)

SpecCheckout == Init /\ [][CheckoutNext]_vars

\* products are put in carts, ordered and deleted, with sign-up for a caller
\* who is not staff
ProductNext ==
    \/ CreateUser(FALSE)
    \/ \E u \in Callers : POST_carts(u)
    \/ \E u \in Callers, c \in CartIds, p \in ProductIds :
          POST_cart_items(u, c, p, MaxQuantity)
    \/ \E u \in Callers, c \in CartIds : POST_orders(u, c, FALSE)
    \/ \E u \in Callers, pk \in ProductIds : DELETE_product(u, pk)

SpecProduct == Init /\ [][ProductNext]_vars

\* the orders and who may read, change and delete them, with sign-up for a
\* caller who is not staff; carts are filled to be ordered
OrderAdminNext ==
    \/ CreateUser(FALSE)
    \/ \E u \in Callers : POST_carts(u)
    \/ \E u \in Callers, c \in CartIds, p \in ProductIds :
          POST_cart_items(u, c, p, MaxQuantity)
    \/ \E u \in Callers, c \in CartIds : POST_orders(u, c, FALSE)
    \/ \E u \in Callers : GET_orders(u)
    \/ \E u \in Callers, pk \in OrderIds, s \in PAYMENT_STATUS \cup {"X"} :
          PATCH_order(u, pk, s)
    \/ \E u \in Callers, pk \in OrderIds : DELETE_order(u, pk)

SpecOrderAdmin == Init /\ [][OrderAdminNext]_vars

\* ------------------------------------------------------------------ claims
ItemsOfCart(rows, cart_id) == {i \in rows : i.cart = cart_id}
ItemsOfOrder(rows, order_id) == {i \in rows : i.order = order_id}
CustomersOf(user) == {c \in customers : c.user = user}

\* r leaves orders, order items, carts and cart items as they are
LeavesCheckoutAlone(r) ==
    /\ r.orders = orders
    /\ r.orderItems = orderItems
    /\ r.carts = carts
    /\ r.cartItems = cartItems

\* r holds exactly one order more, an image of cart cart_id: one order item
\* per cart item with its product and quantity, the cart and its items
\* deleted, every other row as it was
OrderTakesCart(r, cart_id, user) ==
    /\ \E o \in r.orders \ orders :
         /\ r.orders = orders \cup {o}
         /\ o.id \notin Pks(orders)
         /\ o.id = r.response.pk
         /\ \E c \in CustomersOf(user) : o.customer = c.id
         /\ orderItems \subseteq r.orderItems
         /\ r.orderItems \ orderItems = ItemsOfOrder(r.orderItems, o.id)
         /\ Cardinality(ItemsOfOrder(r.orderItems, o.id)) =
                Cardinality(ItemsOfCart(cartItems, cart_id))
         /\ \A i \in ItemsOfCart(cartItems, cart_id) :
                Cardinality({n \in ItemsOfOrder(r.orderItems, o.id) :
                    n.product = i.product /\ n.quantity = i.quantity}) = 1
    /\ cart_id \in carts
    /\ r.carts = carts \ {cart_id}
    /\ r.cartItems = cartItems \ ItemsOfCart(cartItems, cart_id)
    /\ ItemsOfCart(r.cartItems, cart_id) = {}

\* C1: in every reachable state, an order creation by an authenticated user
\* who has a Customer, for an existing cart with at least one item, succeeds;
\* and every successful order creation creates exactly one new Order with one
\* OrderItem per CartItem of the cart (same product, same quantity) and
\* deletes the cart and its items.
C1_OrderMirrorsCart ==
    \A u \in Callers, c \in CartIds, f \in BOOLEAN :
        LET r == OrderViewSet_create(u, c, f) IN
        /\ (/\ IsAuthenticated(u)
            /\ c \in carts
            /\ ItemsOfCart(cartItems, c) # {}
            /\ Cardinality(CustomersOf(u)) = 1) => r.response.status = 200
        /\ r.response.status = 200 =>
             /\ ItemsOfCart(cartItems, c) # {}
             /\ OrderTakesCart(r, c, u)

\* an order of two items, one of them of quantity two, was returned, and no
\* cart is left
C1_Witness ==
    /\ response.status = 200
    /\ response.pk \in Pks(orders)
    /\ Cardinality(ItemsOfOrder(orderItems, response.pk)) >= 2
    /\ \E i \in ItemsOfOrder(orderItems, response.pk) : i.quantity >= 2
    /\ carts = {}

\* every order has at least one order item
EveryOrderHasItems ==
    \A o \in orders : ItemsOfOrder(orderItems, o.id) # {}

\* C2: an order creation whose cart_id names no cart, or a cart with no items,
\* creates no Order and no OrderItem and, sent by an authenticated caller, is
\* answered with a validation error (400); every order has at least one item.
C2_BadCartRejected ==
    /\ EveryOrderHasItems
    /\ \A u \in Callers, c \in CartIds, f \in BOOLEAN :
         (c \notin carts \/ ItemsOfCart(cartItems, c) = {}) =>
            LET r == OrderViewSet_create(u, c, f) IN
            /\ LeavesCheckoutAlone(r)
            /\ IsAuthenticated(u) => r.response.status = 400

\* an order creation for an existing, empty cart was refused
C2_Witness ==
    /\ response.status = 400
    /\ response.detail = "Cart is empty"
    /\ carts # {}
    /\ orders = {}

\* no two cart items of the same cart hold the same product
UniqueCartProduct ==
    \A i, j \in cartItems :
        (i.cart = j.cart /\ i.product = j.product) => i = j

\* C3: a cart holds at most one CartItem per product: adding product p with
\* quantity q to a cart whose item for p has quantity q0 leaves exactly one
\* item for p, of quantity q0 + q; adding p to a cart with no item for p
\* creates exactly one item of quantity q; every other row stays as it was.
C3_OneItemPerProduct ==
    /\ UniqueCartProduct
    /\ \A u \in Callers, c \in carts, p \in Pks(products), q \in 1..MaxQuantity :
         LET old == {i \in cartItems : i.cart = c /\ i.product = p} IN
         (old # {} \/ HasFreePk(cartItems, CartItemIds)) =>
            LET r == CartItemViewSet_create(u, c, p, q)
                new == {i \in r.cartItems : i.cart = c /\ i.product = p}
            IN /\ r.response.status = 201
               /\ Cardinality(new) = 1
               /\ r.cartItems \ new = cartItems \ old
               /\ \A n \in new :
                    IF old = {} THEN n.quantity = q
                    ELSE \A o \in old :
                           n.quantity = o.quantity + q /\ n.id = o.id

\* an add was answered 201 and the cart holds one item, of the largest
\* quantity, to which a further add sums
C3_Witness ==
    /\ response.status = 201
    /\ Cardinality(cartItems) = 1
    /\ \E i \in cartItems : i.quantity = MaxQuantity

\* C4: every order item references an existing product; a delete request for
\* a product that an order item references leaves products, collections and
\* cart items as they are and is answered 405 to an admin; a delete request
\* by an admin for an existing product that no order item references is
\* answered 204 and removes that product and no other.
C4_ProductDeleteGuarded ==
    /\ \A i \in orderItems : i.product \in Pks(products)
    /\ \A u \in Callers, pk \in Pks(products) :
         LET r == ProductViewSet_destroy(u, pk) IN
         IF \E i \in orderItems : i.product = pk
         THEN /\ r.products = products
              /\ r.collections = collections
              /\ r.cartItems = cartItems
              /\ IsAdminUser(u) => r.response.status = 405
         ELSE IsAdminUser(u) =>
                /\ r.response.status = 204
                /\ pk \notin Pks(r.products)
                /\ r.products = {p \in products : p.id # pk}

\* a delete of an ordered product was refused and the product is still there
C4_Witness ==
    /\ response.status = 405
    /\ response.detail = "product cannot be deleted, associated with orderitem"
    /\ orderItems # {}
    /\ \A i \in orderItems : i.product \in Pks(products)

\* C5: no user has two customers; creating a user adds exactly one customer,
\* linked to the new user and of Bronze membership, and changes no other
\* customer; saving an existing user again leaves the customers as they are.
C5_OneCustomerPerUser ==
    /\ \A u \in Pks(users) : Cardinality(CustomersOf(u)) <= 1
    /\ HasFreePk(users, UserIds) =>
         \A is_staff \in BOOLEAN :
            LET r == User_create(is_staff)
                mine == {c \in r.customers : c.user = r.id}
            IN /\ r.id \notin Pks(users)
               /\ Cardinality(mine) = 1
               /\ \A c \in mine : c.membership = BRONZE
               /\ r.customers \ mine = customers
    /\ \A u \in Pks(users) : User_save(u).customers = customers

\* a user who signed up after the first one has one customer, of Bronze
\* membership
C5_Witness ==
    \E u \in users :
        /\ u.id # 1
        /\ Cardinality(CustomersOf(u.id)) = 1
        /\ \A c \in CustomersOf(u.id) : c.membership = BRONZE

\* C6: order creation is all-or-nothing: for every caller, cart id and
\* listener outcome the request either succeeds with the order, its order
\* items and the deletion of the cart all in effect, or fails with orders,
\* order items, carts and cart items all as they were; for a caller without
\* a customer it fails and writes nothing.
C6_AllOrNothing ==
    \A u \in Callers, c \in CartIds, f \in BOOLEAN :
        LET r == OrderViewSet_create(u, c, f) IN
        /\ \/ r.response.status = 200 /\ OrderTakesCart(r, c, u)
           \/ r.response.status # 200 /\ LeavesCheckoutAlone(r)
        /\ CustomersOf(u) = {} =>
             /\ r.response.status # 200
             /\ LeavesCheckoutAlone(r)

\* a user without a customer asked for an order of a filled cart: the request
\* failed on the customer lookup, the cart and its items are still there and
\* there is no order
C6_Witness ==
    /\ response.status = 500
    /\ response.detail = "DoesNotExist"
    /\ \E i \in cartItems : i.cart \in carts
    /\ orders = {}
    /\ orderItems = {}

\* C7: a failing listener of order_created changes nothing of the outcome:
\* the request that succeeds with a working listener succeeds with a failing
\* one, with the same response, the order and its items stored and the cart
\* deleted; the failure is only recorded in what send_robust returns.
C7_ListenerFailureTolerated ==
    \A u \in Callers, c \in CartIds :
        LET ok == OrderViewSet_create(u, c, FALSE)
            failed == OrderViewSet_create(u, c, TRUE)
        IN /\ failed.response = ok.response
           /\ failed.orders = ok.orders
           /\ failed.orderItems = ok.orderItems
           /\ failed.carts = ok.carts
           /\ failed.cartItems = ok.cartItems
           /\ (/\ IsAuthenticated(u)
               /\ CustomersOf(u) # {}
               /\ ItemsOfCart(cartItems, c) # {}) =>
                 /\ failed.response.status = 200
                 /\ failed.signal = "receiver raised"
                 /\ OrderTakesCart(failed, c, u)

\* the listener raised, and the order was returned and is stored with its
\* items, the cart gone
C7_Witness ==
    /\ order_created = "receiver raised"
    /\ response.status = 200
    /\ response.pk \in Pks(orders)
    /\ ItemsOfOrder(orderItems, response.pk) # {}
    /\ carts = {}

\* C8 as amended: every order is created Pending and its payment status is
\* always one of Pending, Complete and Failed; a PATCH by an admin with one of
\* the three values sets that value whatever the current status is, so an
\* order that is Complete or Failed can change again and can return to
\* Pending; no other request changes the status of an order.
C8_StatusSetByAdmin ==
    /\ \A o \in orders : o.payment_status \in PAYMENT_STATUS
    /\ \A u \in Callers, c \in CartIds, f \in BOOLEAN :
         LET r == OrderViewSet_create(u, c, f) IN
         /\ orders \subseteq r.orders
         /\ \A o \in r.orders \ orders : o.payment_status = PENDING
    /\ \A u \in Callers, o \in orders, s \in PAYMENT_STATUS \cup {"X"} :
         LET r == OrderViewSet_partial_update(u, o.id, s) IN
         IF IsAdminUser(u) /\ s \in PAYMENT_STATUS
         THEN /\ r.response.status = 200
              /\ r.orders = (orders \ {o}) \cup {[o EXCEPT !.payment_status = s]}
         ELSE r.orders = orders
    /\ \A u \in Callers, pk \in OrderIds :
         OrderViewSet_destroy(u, pk).orders \subseteq orders

\* an update was answered 200 and an order is Complete: the update that the
\* invariant allows from here sets it Failed or Pending
C8_Witness ==
    /\ response = Response(200, "", NoPk)
    /\ \E o \in orders : o.payment_status = COMPLETE

\* C8 as stated: the payment status of an order changes only from Pending,
\* and only to Complete or Failed
C8_Original ==
    [][\A o \in orders : \A n \in orders' :
          (n.id = o.id /\ n.payment_status # o.payment_status) =>
              /\ o.payment_status = PENDING
              /\ n.payment_status \in {COMPLETE, FAILED}]_vars

\* C9: a delete request for a collection whose featured product is set
\* leaves the collections as they are and is answered 405 to an admin; the
\* only collection a delete request removes is the one it names, and only
\* when its featured product is unset; deleting a product removes no
\* collection.
C9_FeaturedCollectionKept ==
    /\ \A u \in Callers, c \in collections :
         LET r == CollectionViewset_destroy(u, c.id) IN
         /\ c.featured_product # None =>
              /\ r.collections = collections
              /\ IsAdminUser(u) => r.response.status = 405
         /\ r.collections \subseteq collections
         /\ \A x \in collections \ r.collections :
              x = c /\ x.featured_product = None
    /\ \A u \in Callers, pk \in ProductIds :
         Pks(ProductViewSet_destroy(u, pk).collections) = Pks(collections)

\* the delete of a collection that features a product was refused, and that
\* collection is still there
C9_Witness ==
    /\ response.status = 405
    /\ response.detail = "collection could not be deleted, featuring a product"
    /\ \E c \in collections : c.featured_product # None

\* an order request of a caller without the role its method asks for is
\* refused (401, 403) and changes nothing: PATCH and DELETE ask for an admin,
\* create and list for an authenticated user
OrderRoutesGated ==
    /\ \A u \in Callers, pk \in OrderIds, s \in PAYMENT_STATUS :
         ~IsAdminUser(u) =>
            /\ OrderViewSet_partial_update(u, pk, s).orders = orders
            /\ OrderViewSet_partial_update(u, pk, s).response.status \in {401, 403}
            /\ OrderViewSet_destroy(u, pk).orders = orders
            /\ OrderViewSet_destroy(u, pk).response.status \in {401, 403}
    /\ \A c \in CartIds, f \in BOOLEAN :
         /\ LeavesCheckoutAlone(OrderViewSet_create(Anonymous, c, f))
         /\ OrderViewSet_create(Anonymous, c, f).response.status = 401
    /\ OrderViewSet_list(Anonymous).response.status = 401

\* C10 as amended: order PATCH and DELETE take effect only for an admin,
\* order create and list only for an authenticated user, and a refused order
\* request changes nothing; the cart and cart item requests carry no
\* permission gate: they do for an anonymous caller what they do for an
\* admin, and an anonymous caller can create a cart and add an item to it.
C10_OrdersGatedCartsOpen ==
    /\ OrderRoutesGated
    /\ \A u \in Callers :
         /\ CartIds \ carts # {} =>
              /\ CartViewSet_create(Anonymous) = CartViewSet_create(u)
              /\ CartViewSet_create(Anonymous).response.status = 201
              /\ CartViewSet_create(Anonymous).carts # carts
         /\ \A c \in carts :
              CartViewSet_destroy(Anonymous, c) = CartViewSet_destroy(u, c)
         /\ \A i \in cartItems, q \in 0..MaxQuantity :
              /\ CartItemViewSet_update(Anonymous, i.cart, i.id, q) =
                     CartItemViewSet_update(u, i.cart, i.id, q)
              /\ CartItemViewSet_destroy(Anonymous, i.cart, i.id) =
                     CartItemViewSet_destroy(u, i.cart, i.id)
    /\ \A c \in carts, p \in Pks(products) :
         cartItems = {} =>
            LET r == CartItemViewSet_create(Anonymous, c, p, MaxQuantity) IN
            /\ r.response.status = 201
            /\ r.cartItems # cartItems

\* a signed-in user who is not an admin asked to change or delete an order
\* and was refused; the order is there
C10_Witness ==
    /\ response.status = 403
    /\ orders # {}
    /\ \E u \in users : ~u.is_staff

\* C10 as stated: on top of the gates of the order routes, cart and cart item
\* requests of an anonymous caller change nothing
C10_Original ==
    /\ OrderRoutesGated
    /\ CartIds \ carts # {} => CartViewSet_create(Anonymous).carts = carts
    /\ \A c \in carts :
         /\ CartViewSet_destroy(Anonymous, c).carts = carts
         /\ CartViewSet_destroy(Anonymous, c).cartItems = cartItems
    /\ \A i \in cartItems, q \in 1..MaxQuantity :
         /\ CartItemViewSet_update(Anonymous, i.cart, i.id, q).cartItems = cartItems
         /\ CartItemViewSet_destroy(Anonymous, i.cart, i.id).cartItems = cartItems
    /\ \A c \in carts, p \in Pks(products), q \in 1..MaxQuantity :
         HasFreePk(cartItems, CartItemIds) =>
            CartItemViewSet_create(Anonymous, c, p, q).cartItems = cartItems

\* C11: every cart item references an existing product and an existing cart;
\* an add-cart-item request whose product_id names no product, or whose cart
\* id names no cart, creates no cart item and is answered with a validation
\* error (400).
C11_MissingReferenceRejected ==
    /\ \A i \in cartItems : i.product \in Pks(products) /\ i.cart \in carts
    /\ \A u \in Callers, c \in CartIds, p \in ProductIds, q \in 1..MaxQuantity :
         (c \notin carts \/ p \notin Pks(products)) =>
            LET r == CartItemViewSet_create(u, c, p, q) IN
            /\ r.cartItems = cartItems
            /\ r.response.status = 400
====
